---- MODULE Spec2Model ----
(***************************************************************************)
(* A model of the citation engine of LexLink (src/src/lexlink/citation.py) *)
(* and of the tool that fronts it (src/src/lexlink/server.py):             *)
(*   - the anchor classifier      CitationExtractor._parse_single_link     *)
(*   - the consolidation fold     CitationExtractor.consolidate_citations  *)
(*   - the extraction pipeline    CitationExtractor.extract_citations,     *)
(*     get_lsi_seq, fetch_article_html and the tool article_citation       *)
(*                                                                         *)
(* Python objects are modelled by a heap (a sequence of records); a list   *)
(* of Citation objects is a sequence of heap indices, so that the in-place *)
(* assignments of the fold (last.target_article = ...) act on the very     *)
(* object the caller's list holds.  Text is a sequence of tokens; the      *)
(* regular expressions of the classifier search that sequence.             *)
(***************************************************************************)
EXTENDS Integers, Sequences, FiniteSets, TLC

\* Bound of the fold: the longest fragment list that is consolidated.
MaxLen == 4

-----------------------------------------------------------------------------
(* Values *)

\* Python's None in an Optional[int] field.
None == -1

\* One token of a text: k is its kind, v its word, n and b its numbers.
Tok(k, v, n, b) == [k |-> k, v |-> v, n |-> n, b |-> b]

\* The separating space of  last.target_text += " " + citation.target_text
Sp == Tok("sp", " ", None, None)

\* Python's None in an Optional[str] field (distinct from the empty string <<>>).
NoName == << Tok("none", "", None, None) >>

\* Truth value of an Optional[int] / Optional[str] in a Python condition.
TruthyInt(x) == x # None /\ x # 0
TruthyStr(s) == s # NoName /\ s # << >>

\* The texts of the model's anchors.
LawText(name) == << Tok("lawname", name, None, None) >>      \* the bracketed name
BareText(name) == << Tok("word", name, None, None) >>        \* a name without brackets
SameLawText == << Tok("same", "same-law", None, None) >>     \* the same-law phrase
ArticleText(n, b) == << Tok("jo", "", n, b) >>               \* article n (branch b)
ParagraphText(n) == << Tok("hang", "", n, None) >>           \* paragraph n
ItemText(n) == << Tok("ho", "", n, None) >>                  \* item n

\* re.search: the position of the first token of kind k in text, 0 for no match.
Search(text, k) ==
    IF \E i \in DOMAIN text : text[i].k = k
    THEN CHOOSE i \in DOMAIN text :
            /\ text[i].k = k
            /\ \A j \in DOMAIN text : text[j].k = k => i <= j
    ELSE 0

-----------------------------------------------------------------------------
(* The anchor classifier *)

\* The class names that start with "sfon".
SfonClasses == {"sfon1", "sfon2", "sfon3", "sfon4", "sfon5"}

\* The first class of the anchor that starts with "sfon", "" when there is none.
LinkClass(classes) ==
    IF \E i \in DOMAIN classes : classes[i] \in SfonClasses
    THEN classes[CHOOSE i \in DOMAIN classes :
                    /\ classes[i] \in SfonClasses
                    /\ \A j \in DOMAIN classes : classes[j] \in SfonClasses => i <= j]
    ELSE ""

\* A Citation as the dataclass constructs it.
NewCitation(text, ref_id, type, law_name, article, branch, paragraph, item, ctype, cls) ==
    [ target_text |-> text,
      target_ref_id |-> ref_id,
      target_type |-> type,
      target_law_name |-> law_name,
      target_article |-> article,
      target_article_branch |-> branch,
      target_paragraph |-> paragraph,
      target_item |-> item,
      citation_type |-> ctype,
      link_class |-> cls ]

\* The law-name branch of the classifier (link_class sfon1).
ParseLawName(citation, link_text, source_law_name) ==
    LET m == Search(link_text, "lawname") IN
    IF m # 0
    THEN [citation EXCEPT !.target_law_name = BareText(link_text[m].v),
                          !.citation_type = "external"]
    ELSE IF Search(link_text, "same") # 0
    THEN [citation EXCEPT !.citation_type = "internal",
                          !.target_law_name = source_law_name]
    ELSE [citation EXCEPT !.target_law_name = link_text,
                          !.citation_type = "external"]

\* An article branch that reads the branch number and forgets the article.
ParseArticle_BranchOnly(citation, link_text) ==
    LET m == Search(link_text, "jo") IN
    IF m # 0
    THEN [citation EXCEPT !.citation_type = "internal",
                          !.target_article_branch = link_text[m].b]
    ELSE [citation EXCEPT !.citation_type = "internal"]

\* The article branch of the classifier (link_class sfon2).
ParseArticle(citation, link_text) ==
    LET m == Search(link_text, "jo") IN
    IF m # 0
    THEN [citation EXCEPT !.citation_type = "internal",
                          !.target_article = link_text[m].n,
                          !.target_article_branch = link_text[m].b]
    ELSE [citation EXCEPT !.citation_type = "internal"]

\* The paragraph branch of the classifier (link_class sfon3).
ParseParagraph(citation, link_text) ==
    LET m == Search(link_text, "hang") IN
    IF m # 0
    THEN [citation EXCEPT !.citation_type = "internal",
                          !.target_paragraph = link_text[m].n]
    ELSE [citation EXCEPT !.citation_type = "internal"]

\* The item branch of the classifier (link_class sfon4).
ParseItem(citation, link_text) ==
    LET m == Search(link_text, "ho") IN
    IF m # 0
    THEN [citation EXCEPT !.citation_type = "internal",
                          !.target_item = link_text[m].n]
    ELSE [citation EXCEPT !.citation_type = "internal"]

\* _parse_single_link: << >> for an anchor without a popup directive, else the
\* one Citation the anchor yields.  link.onclick is << >> when the directive
\* pattern does not match, else << ref_id, ref_type >>.
ParseSingleLink(link, source_law_name) ==
    IF link.onclick = << >>
    THEN << >>
    ELSE LET link_class == LinkClass(link.classes)
             citation == NewCitation(link.text, link.onclick[1], link.onclick[2],
                                     NoName, None, None, None, None,
                                     "unknown", link_class)
         IN  << CASE link_class = "sfon1" -> ParseLawName(citation, link.text, source_law_name)
                  [] link_class = "sfon2" -> ParseArticle(citation, link.text)
                  [] link_class = "sfon3" -> ParseParagraph(citation, link.text)
                  [] link_class = "sfon4" -> ParseItem(citation, link.text)
                  [] OTHER -> citation >>

\* The find_all filter of parse_citations: an <a> whose class holds "link" and "sfon".
IsCitationLink(el) ==
    /\ el.tag = "a"
    /\ \E i \in DOMAIN el.classes : el.classes[i] = "link"
    /\ \E i \in DOMAIN el.classes : el.classes[i] \in SfonClasses

RECURSIVE ParseCitations(_, _)
\* parse_citations: the citations of the citation links of a page, in document order.
ParseCitations(html, source_law_name) ==
    IF html = << >>
    THEN << >>
    ELSE (IF IsCitationLink(Head(html))
          THEN ParseSingleLink(Head(html), source_law_name)
          ELSE << >>)
            \o ParseCitations(Tail(html), source_law_name)

-----------------------------------------------------------------------------
(* The consolidation fold *)

\* The state of one run of consolidate_citations: the heap of Citation objects,
\* the caller's list (citations) and the function's locals.  An index of 0 is
\* Python's None for current_internal_article_idx (positions are 1-based here).
FoldInit ==
    [ heap |-> << >>,
      citations |-> << >>,
      consolidated |-> << >>,
      current_external_law |-> NoName,
      current_internal_article_idx |-> 0 ]

\* consolidated[-1]
LastRef(st) == st.consolidated[Len(st.consolidated)]

\* The copy a fork constructs: law and article context from target, the
\* paragraph and item of the fragment.
ForkCitation(citation, target, ctype) ==
    NewCitation(citation.target_text, citation.target_ref_id, citation.target_type,
                target.target_law_name, target.target_article,
                target.target_article_branch,
                citation.target_paragraph, citation.target_item,
                ctype, citation.link_class)

\* The in-place merge of a paragraph/item fragment into target.
MergeDetail(target, citation) ==
    [target EXCEPT
        !.target_paragraph = IF TruthyInt(citation.target_paragraph)
                             THEN citation.target_paragraph ELSE @,
        !.target_item = IF TruthyInt(citation.target_item)
                        THEN citation.target_item ELSE @,
        !.target_text = @ \o << Sp >> \o citation.target_text]

\* A merge of an article that appends the text and forgets the numbers.
MergeArticle_TextOnly(target, citation) ==
    [target EXCEPT !.target_text = @ \o << Sp >> \o citation.target_text]

\* The in-place merge of an article fragment into the external law citation.
MergeArticle(target, citation) ==
    [target EXCEPT
        !.target_article = citation.target_article,
        !.target_article_branch = citation.target_article_branch,
        !.target_text = @ \o << Sp >> \o citation.target_text]

\* "already has paragraph/item": the fragment brings a field the target holds.
Collides(citation, target) ==
    \/ TruthyInt(citation.target_paragraph) /\ TruthyInt(target.target_paragraph)
    \/ TruthyInt(citation.target_item) /\ TruthyInt(target.target_item)

\* current_external_law and len(consolidated) > 0
HasExternalContext(st) ==
    TruthyStr(st.current_external_law) /\ Len(st.consolidated) > 0

\* last.citation_type == "external" and last.target_law_name == current_external_law
LastIsExternalTarget(st) ==
    LET last == st.heap[LastRef(st)] IN
    /\ last.citation_type = "external"
    /\ last.target_law_name = st.current_external_law

\* Append object c of the heap to consolidated, its citation_type forced to internal.
AppendInternal(st, c) ==
    [st EXCEPT !.heap[c].citation_type = "internal",
               !.consolidated = Append(@, c)]

\* A law-name step that leaves the internal article index as it was.
LawNameStep_KeepsIndex(st, c) ==
    LET citation == st.heap[c] IN
    [st EXCEPT
        !.current_external_law = IF citation.citation_type = "external"
                                 THEN citation.target_law_name ELSE NoName,
        !.consolidated = Append(@, c)]

\* Branch sfon1: a new law reference.
LawNameStep(st, c) ==
    LET citation == st.heap[c] IN
    [st EXCEPT
        !.current_internal_article_idx = 0,
        !.current_external_law = IF citation.citation_type = "external"
                                 THEN citation.target_law_name ELSE NoName,
        !.consolidated = Append(@, c)]

\* Branch sfon2: an article reference.
ArticleStep(st, c) ==
    LET citation == st.heap[c] IN
    IF /\ HasExternalContext(st)
       /\ LastIsExternalTarget(st)
       /\ st.heap[LastRef(st)].target_article = None
    THEN [st EXCEPT !.heap[LastRef(st)] = MergeArticle(@, citation),
                    !.current_internal_article_idx = 0]
    ELSE LET a == AppendInternal(st, c) IN
         [a EXCEPT !.current_external_law = NoName,
                   !.current_internal_article_idx = Len(a.consolidated)]

\* A paragraph/item step that always merges in place (a later value overwrites).
ForkOrMerge_Overwrite(st, c, t, ctype) ==
    [st EXCEPT !.heap[t] = MergeDetail(@, st.heap[c])]

\* A fork that makes the forked entry the internal article that later
\* fragments look at.
ForkOrMerge_Retarget(st, c, t, ctype) ==
    LET citation == st.heap[c]
        target == st.heap[t]
    IN  IF Collides(citation, target)
        THEN LET heap2 == Append(st.heap, ForkCitation(citation, target, ctype)) IN
             [st EXCEPT !.heap = heap2,
                        !.consolidated = Append(@, Len(heap2)),
                        !.current_internal_article_idx =
                            IF ctype = "internal" THEN Len(st.consolidated) + 1 ELSE @]
        ELSE [st EXCEPT !.heap[t] = MergeDetail(@, st.heap[c])]

\* Fork or merge of fragment c against the object at heap index t.
ForkOrMerge(st, c, t, ctype) ==
    LET citation == st.heap[c]
        target == st.heap[t]
    IN  IF Collides(citation, target)
        THEN LET heap2 == Append(st.heap, ForkCitation(citation, target, ctype)) IN
             [st EXCEPT !.heap = heap2,
                        !.consolidated = Append(@, Len(heap2))]
        ELSE [st EXCEPT !.heap[t] = MergeDetail(@, citation)]

\* Branch sfon3 / sfon4: a paragraph or item reference.
DetailStep(st, c) ==
    IF HasExternalContext(st)
    THEN IF LastIsExternalTarget(st)
         THEN ForkOrMerge(st, c, LastRef(st), "external")
         ELSE AppendInternal(st, c)
    ELSE IF st.current_internal_article_idx # 0
    THEN LET t == st.consolidated[st.current_internal_article_idx] IN
         IF /\ st.heap[t].citation_type = "internal"
            /\ TruthyInt(st.heap[t].target_article)
         THEN ForkOrMerge(st, c, t, "internal")
         ELSE AppendInternal(st, c)
    ELSE AppendInternal(st, c)

\* A loop body that keeps the fragments of unknown marker in the list.
FoldStep_KeepsUnknown(st, value) ==
    LET heap1 == Append(st.heap, value)
        c == Len(heap1)
        s1 == [st EXCEPT !.heap = heap1, !.citations = Append(@, c)]
    IN  CASE value.link_class = "sfon1" -> LawNameStep(s1, c)
          [] value.link_class = "sfon2" -> ArticleStep(s1, c)
          [] value.link_class \in {"sfon3", "sfon4"} -> DetailStep(s1, c)
          [] OTHER -> [s1 EXCEPT !.consolidated = Append(@, c)]

\* One pass of the loop body: the next object of the caller's list is value.
FoldStep(st, value) ==
    LET heap1 == Append(st.heap, value)
        c == Len(heap1)
        s1 == [st EXCEPT !.heap = heap1, !.citations = Append(@, c)]
    IN  CASE value.link_class = "sfon1" -> LawNameStep(s1, c)
          [] value.link_class = "sfon2" -> ArticleStep(s1, c)
          [] value.link_class \in {"sfon3", "sfon4"} -> DetailStep(s1, c)
          [] OTHER -> s1

RECURSIVE FoldFrom(_, _)
\* The loop of consolidate_citations, from state st over the values left.
FoldFrom(st, values) ==
    IF values = << >> THEN st
    ELSE FoldFrom(FoldStep(st, Head(values)), Tail(values))

\* The values of the list consolidate_citations returns.
Returned(st) == [i \in 1..Len(st.consolidated) |-> st.heap[st.consolidated[i]]]

\* The values the caller's list holds after the call.
CallerList(st) == [i \in 1..Len(st.citations) |-> st.heap[st.citations[i]]]

\* consolidate_citations on a list of freshly built Citation objects.
Consolidate(values) == Returned(FoldFrom(FoldInit, values))

-----------------------------------------------------------------------------
(* The extraction pipeline: values *)

\* A literal piece and a formatted number of an f-string.
Lit(w) == Tok("lit", w, None, None)
Num(n) == Tok("num", "", n, None)

\* A display that appends the branch suffix whatever the branch number is.
ArticleDisplay_AlwaysSuffix(article, article_branch) ==
    << Lit("je"), Num(article), Lit("jo"), Lit("ui"), Num(article_branch) >>

\* article_display: the article, and the branch suffix when article_branch > 0.
ArticleDisplay(article, article_branch) ==
    << Lit("je"), Num(article), Lit("jo") >>
        \o (IF article_branch > 0 THEN << Lit("ui"), Num(article_branch) >> ELSE << >>)

\* Citation.to_dict: the fields that are set.
CitationToDict(c) ==
    LET keys == {"type", "raw_text", "ref_id"}
                \cup (IF TruthyStr(c.target_law_name) THEN {"target_law_name"} ELSE {})
                \cup (IF c.target_article # None THEN {"target_article"} ELSE {})
                \cup (IF c.target_article_branch # None THEN {"target_article_branch"} ELSE {})
                \cup (IF c.target_paragraph # None THEN {"target_paragraph"} ELSE {})
                \cup (IF c.target_item # None THEN {"target_item"} ELSE {})
    IN  [k \in keys |->
            CASE k = "type" -> c.citation_type
              [] k = "raw_text" -> c.target_text
              [] k = "ref_id" -> c.target_ref_id
              [] k = "target_law_name" -> c.target_law_name
              [] k = "target_article" -> c.target_article
              [] k = "target_article_branch" -> c.target_article_branch
              [] k = "target_paragraph" -> c.target_paragraph
              [] k = "target_item" -> c.target_item]

\* The number of entries of list with citation_type ctype.
CountType(list, ctype) == Cardinality({i \in DOMAIN list : list[i].citation_type = ctype})

\* CitationResult(...).to_dict() (processing_time_ms, a clock reading, is left out).
CitationResult(success, mst, law_name, display, citations, internal, external, errors) ==
    [ success |-> success,
      law_id |-> mst,
      law_name |-> law_name,
      article |-> display,
      citation_count |-> Len(citations),
      citations |-> citations,
      internal_count |-> internal,
      external_count |-> external,
      extraction_method |-> "html",
      errors |-> errors ]

\* The result of extract_citations when get_lsi_seq returned nothing.
LookupFailure(a) ==
    CitationResult(FALSE, a.mst, a.law_name,
                   ArticleDisplay(a.article, a.article_branch), << >>, 0, 0,
                   << [message |-> "Could not get lsiSeq for",
                       about |-> BareText(a.law_name)] >>)

\* The result of extract_citations when fetch_article_html returned nothing.
FetchFailure(a) ==
    CitationResult(FALSE, a.mst, a.law_name,
                   ArticleDisplay(a.article, a.article_branch), << >>, 0, 0,
                   << [message |-> "Could not fetch HTML for",
                       about |-> ArticleDisplay(a.article, a.article_branch)] >>)

\* Steps 3 to 6 with the two counts taken over the citations before consolidation.
ExtractSuccess_CountsRaw(a, html) ==
    LET raw_citations == ParseCitations(html, BareText(a.law_name))
        list == Consolidate(raw_citations)
    IN  CitationResult(TRUE, a.mst, a.law_name,
                       ArticleDisplay(a.article, a.article_branch),
                       [i \in DOMAIN list |-> CitationToDict(list[i])],
                       CountType(raw_citations, "internal"),
                       CountType(raw_citations, "external"),
                       << >>)

\* Steps 3 to 6 of extract_citations on the fetched html.
ExtractSuccess(a, html) ==
    LET raw_citations == ParseCitations(html, BareText(a.law_name))
        list == Consolidate(raw_citations)
    IN  CitationResult(TRUE, a.mst, a.law_name,
                       ArticleDisplay(a.article, a.article_branch),
                       [i \in DOMAIN list |-> CitationToDict(list[i])],
                       CountType(list, "internal"), CountType(list, "external"),
                       << >>)

\* create_error_response of the tool (the hints are left out).
CreateErrorResponse(error_code, message) ==
    [status |-> "error", error_code |-> error_code, message |-> message]

\* A validation that lets article 0 through.
ValidationError_ZeroPasses(mst, law_name, article) ==
    IF mst = "" THEN "mst is required"
    ELSE IF law_name = "" THEN "law_name is required"
    ELSE IF article < 0 THEN "article must be a positive integer"
    ELSE ""

\* The message of the ValueError the tool's validation raises, "" when it raises none.
ValidationError(mst, law_name, article) ==
    IF mst = "" THEN "mst is required"
    ELSE IF law_name = "" THEN "law_name is required"
    ELSE IF article <= 0 THEN "article must be a positive integer"
    ELSE ""

\* get_lsi_seq's None, and the truth value of its return.
NoSeq == "None"
\* An extract_citations without its  if not lsi_seq  check.
FalsySeq_Never(x) == FALSE

FalsySeq(x) == x = NoSeq \/ x = ""

\* An http reply: the client raised, or a response with a status and a text.
Raised == [exc |-> TRUE, status_code |-> 0, text |-> << >>]
Response(status_code, text) == [exc |-> FALSE, status_code |-> status_code, text |-> text]

\* The dictionary _lsi_seq_cache: a function whose domain is its keys.
EmptyCache == [m \in {} |-> NoSeq]
\* A get_lsi_seq that never consults its cache.
CacheHas_Never(cch, mst) == FALSE

CacheHas(cch, mst) == mst \in DOMAIN cch
\* A cache with one slot that every law id shares.
CachePut_SharedSlot(cch, mst, lsi_seq) == [m \in {"m1", "m2"} |-> lsi_seq]

CachePut(cch, mst, lsi_seq) ==
    [m \in DOMAIN cch \cup {mst} |-> IF m = mst THEN lsi_seq ELSE cch[m]]

\* A get_lsi_seq that also records the lookup that found no id.
GetLsiSeqResume_CachesFailure(cch, mst, reply) ==
    IF reply.exc
    THEN [cache |-> cch, ret |-> NoSeq, raised |-> FALSE]
    ELSE IF reply.status_code # 200
    THEN [cache |-> cch, ret |-> NoSeq, raised |-> FALSE]
    ELSE LET m == Search(reply.text, "lsiSeq") IN
         IF m # 0
         THEN [cache |-> CachePut(cch, mst, reply.text[m].v),
               ret |-> reply.text[m].v, raised |-> FALSE]
         ELSE [cache |-> CachePut(cch, mst, NoSeq), ret |-> NoSeq, raised |-> FALSE]

\* get_lsi_seq without its except clause: the client's exception leaves it.
GetLsiSeqResume_NoExcept(cch, mst, reply) ==
    IF reply.exc
    THEN [cache |-> cch, ret |-> NoSeq, raised |-> TRUE]
    ELSE IF reply.status_code # 200
    THEN [cache |-> cch, ret |-> NoSeq, raised |-> FALSE]
    ELSE LET m == Search(reply.text, "lsiSeq") IN
         IF m # 0
         THEN [cache |-> CachePut(cch, mst, reply.text[m].v),
               ret |-> reply.text[m].v, raised |-> FALSE]
         ELSE [cache |-> cch, ret |-> NoSeq, raised |-> FALSE]

\* get_lsi_seq from the reply of client.get on: the cache after it, the value
\* returned, and whether an exception left the function.
GetLsiSeqResume(cch, mst, reply) ==
    IF reply.exc
    THEN [cache |-> cch, ret |-> NoSeq, raised |-> FALSE]
    ELSE IF reply.status_code # 200
    THEN [cache |-> cch, ret |-> NoSeq, raised |-> FALSE]
    ELSE LET m == Search(reply.text, "lsiSeq") IN
         IF m # 0
         THEN [cache |-> CachePut(cch, mst, reply.text[m].v),
               ret |-> reply.text[m].v, raised |-> FALSE]
         ELSE [cache |-> cch, ret |-> NoSeq, raised |-> FALSE]

\* fetch_article_html's None.
NoHtml == << [tag |-> "None", onclick |-> << >>, text |-> << >>, classes |-> << >>] >>
FalsyHtml(html) == html = NoHtml \/ html = << >>

\* fetch_article_html without its status check: any response's text is returned.
FetchArticleHtmlResume_AnyStatus(reply) ==
    IF reply.exc
    THEN [ret |-> NoHtml, raised |-> FALSE]
    ELSE [ret |-> reply.text, raised |-> FALSE]

\* fetch_article_html from the reply of client.get on.
FetchArticleHtmlResume(reply) ==
    IF reply.exc
    THEN [ret |-> NoHtml, raised |-> FALSE]
    ELSE IF reply.status_code = 200
    THEN [ret |-> reply.text, raised |-> FALSE]
    ELSE [ret |-> NoHtml, raised |-> FALSE]

RECURSIVE Digits(_)
\* str(n) for n >= 0, as its decimal digits.
Digits(n) == IF n < 10 THEN << n >> ELSE Append(Digits(n \div 10), n % 10)

RECURSIVE ZFill(_, _)
\* str.zfill(width) of a digit string.
ZFill(digits, width) ==
    IF Len(digits) >= width THEN digits ELSE ZFill(<< 0 >> \o digits, width)

\* The query parameters of fetch_article_html.
FetchParams(lsi_seq, article_no, article_branch) ==
    [ lsiSeq |-> lsi_seq,
      joNo |-> ZFill(Digits(article_no), 4),
      joBrNo |-> ZFill(Digits(article_branch), 2) ]

-----------------------------------------------------------------------------
(* The law site, as the two collaborators see it *)

\* The law page of a name: the text in which LSI_SEQ_PATTERN finds the id.
SiteSeq(law_name) == IF law_name = "N1" THEN "101" ELSE "102"
LawPage(law_name) == << Tok("word", "iframe", None, None),
                        Tok("lsiSeq", SiteSeq(law_name), None, None) >>
PageWithoutSeq == << Tok("word", "notfound", None, None) >>

\* An element that is no citation link, and an anchor without a popup directive.
Element(tag) == [tag |-> tag, onclick |-> << >>, text |-> << >>, classes |-> << >>]
PlainAnchor ==
    [tag |-> "a", onclick |-> << >>, text |-> BareText("x"), classes |-> << "link", "sfon2" >>]

\* The article panel the site serves for the parameters of the fetch.
ArticlePage(params) ==
    IF params.lsiSeq = "101" /\ params.joBrNo = << 0, 0 >>
    THEN << Element("div"),
            [tag |-> "a", onclick |-> << "7", "ALLJO" >>, text |-> LawText("A"),
             classes |-> << "link", "sfon1" >>],
            [tag |-> "a", onclick |-> << "7", "JO" >>, text |-> ArticleText(1, None),
             classes |-> << "link", "sfon2" >>],
            PlainAnchor,
            [tag |-> "a", onclick |-> << "7", "JO" >>, text |-> ParagraphText(1),
             classes |-> << "link", "sfon3" >>],
            [tag |-> "a", onclick |-> << "7", "JO" >>, text |-> ParagraphText(2),
             classes |-> << "link", "sfon3" >>] >>
    ELSE IF params.lsiSeq = "101"
    THEN << Element("div"), PlainAnchor >>
    ELSE IF params.joBrNo = << 0, 0 >>
    THEN << [tag |-> "a", onclick |-> << "8", "JO" >>, text |-> ArticleText(2, 1),
             classes |-> << "link", "sfon2" >>],
            [tag |-> "a", onclick |-> << "8", "JO" >>, text |-> ParagraphText(1),
             classes |-> << "link", "sfon3" >>],
            [tag |-> "a", onclick |-> << "8", "JO" >>, text |-> BareText("y"),
             classes |-> << "link", "sfon5" >>],
            [tag |-> "a", onclick |-> << "8", "ALLJO" >>, text |-> SameLawText,
             classes |-> << "link", "sfon1" >>],
            [tag |-> "a", onclick |-> << "8", "JO" >>, text |-> ItemText(1),
             classes |-> << "link", "sfon4" >>] >>
    ELSE << >>

\* What client.get may answer the lookup of a name, and the fetch for params.
LookupReplies(law_name) ==
    { Raised, Response(500, << >>), Response(200, PageWithoutSeq),
      Response(200, LawPage(law_name)) }
FetchReplies(params) ==
    { Raised, Response(404, << Element("div") >>), Response(200, ArticlePage(params)) }

-----------------------------------------------------------------------------
(* Relevance ranking (src/src/lexlink/ranking.py) *)

\* A str is the sequence of its characters.  str.lower() of one character.
LowerChar(ch) ==
    CASE ch = "A" -> "a"
      [] ch = "B" -> "b"
      [] OTHER -> ch

\* str.lower()
Lower(s) == [i \in DOMAIN s |-> LowerChar(s[i])]

\* The characters str.strip() removes.
IsSpace(ch) == ch = " "

RECURSIVE LStrip(_)
LStrip(s) == IF s # << >> /\ IsSpace(Head(s)) THEN LStrip(Tail(s)) ELSE s

RECURSIVE RStrip(_)
RStrip(s) ==
    IF s # << >> /\ IsSpace(s[Len(s)]) THEN RStrip(SubSeq(s, 1, Len(s) - 1)) ELSE s

\* str.strip()
Strip(s) == RStrip(LStrip(s))

\* str.startswith(prefix)
StartsWith(s, prefix) ==
    Len(prefix) <= Len(s) /\ SubSeq(s, 1, Len(prefix)) = prefix

\* sub occurs in s at the 0-based index idx.
OccursAt(s, sub, idx) ==
    /\ idx >= 0
    /\ idx + Len(sub) <= Len(s)
    /\ SubSeq(s, idx + 1, idx + Len(sub)) = sub

\* str.find(sub): the lowest 0-based index where sub occurs, -1 for none.
Find(s, sub) ==
    IF \E idx \in 0..Len(s) : OccursAt(s, sub, idx)
    THEN CHOOSE idx \in 0..Len(s) :
            /\ OccursAt(s, sub, idx)
            /\ \A other \in 0..Len(s) : OccursAt(s, sub, other) => idx <= other
    ELSE 0 - 1

\* sub in s
Contains(s, sub) == \E idx \in 0..Len(s) : OccursAt(s, sub, idx)

\* dict.get(key, default)
Get(result, key, default) == IF key \in DOMAIN result THEN result[key] ELSE default

\* calculate_score: the sort key of one result.
CalculateScore(result, query, name_field) ==
    LET name == Strip(Get(result, name_field, << >>)) IN
    IF name = << >>
    THEN << 999, 999, 999, 999, Len(name) >>
    ELSE LET query_lower == Strip(Lower(query))
             name_lower == Lower(name)
             exact_match == IF name_lower = query_lower THEN 0 ELSE 1
             starts_with == IF StartsWith(name_lower, query_lower) THEN 0 ELSE 1
             idx == Find(name_lower, query_lower)
             word_match == IF Contains(name_lower, query_lower)
                           THEN (IF idx = 0 \/ name_lower[idx] = " " THEN 0 ELSE 1)
                           ELSE 1
             contains == IF Contains(name_lower, query_lower) THEN 0 ELSE 1
             length_penalty == Len(name)
         IN  << exact_match, starts_with, word_match, contains, length_penalty >>

RECURSIVE TupleLess(_, _)
\* Python's < on two tuples of integers of the same length.
TupleLess(a, b) ==
    IF a = << >> THEN FALSE
    ELSE IF Head(a) # Head(b) THEN Head(a) < Head(b)
    ELSE TupleLess(Tail(a), Tail(b))

\* The prefix of sorted_list that stays before x: up to the last element whose
\* key is not greater than the key of x.
KeepBefore(sorted_list, x, query, name_field) ==
    Cardinality({i \in DOMAIN sorted_list :
                    ~TupleLess(CalculateScore(x, query, name_field),
                               CalculateScore(sorted_list[i], query, name_field))})

\* An insertion that puts x before the elements whose key equals its own.
Insert_BeforeEquals(sorted_list, x, query, name_field) ==
    LET n == Cardinality({i \in DOMAIN sorted_list :
                            TupleLess(CalculateScore(sorted_list[i], query, name_field),
                                      CalculateScore(x, query, name_field))})
    IN  SubSeq(sorted_list, 1, n) \o << x >> \o SubSeq(sorted_list, n + 1, Len(sorted_list))

\* One step of the stable sort: x goes after every element whose key is not
\* greater than its own.
Insert(sorted_list, x, query, name_field) ==
    LET n == KeepBefore(sorted_list, x, query, name_field) IN
    SubSeq(sorted_list, 1, n) \o << x >> \o SubSeq(sorted_list, n + 1, Len(sorted_list))

RECURSIVE SortedFrom(_, _, _, _)
\* sorted(results, key=calculate_score): a new list, stably sorted by key.
SortedFrom(done, rest, query, name_field) ==
    IF rest = << >> THEN done
    ELSE SortedFrom(Insert(done, Head(rest), query, name_field), Tail(rest),
                    query, name_field)

Sorted(list, query, name_field) == SortedFrom(<< >>, list, query, name_field)

\* A ranking that sorts the caller's list in place (results.sort(key=...)).
RankSearchResults_InPlace(results, query, name_field) ==
    IF results = << >> \/ query = << >>
    THEN [ret |-> results, results |-> results]
    ELSE [ret |-> Sorted(results, query, name_field),
          results |-> Sorted(results, query, name_field)]

\* rank_search_results: the list returned, and the caller's list after the call.
RankSearchResults(results, query, name_field) ==
    IF results = << >> \/ query = << >>
    THEN [ret |-> results, results |-> results]
    ELSE [ret |-> Sorted(results, query, name_field), results |-> results]

\* A gate that lets one-character queries through.
ShouldApplyRanking_AnyLength(query) ==
    IF query = << >> \/ Strip(query) = << >> THEN FALSE
    ELSE IF Strip(query) = << "*" >> THEN FALSE
    ELSE TRUE

\* should_apply_ranking
ShouldApplyRanking(query) ==
    IF query = << >> \/ Strip(query) = << >> THEN FALSE
    ELSE IF Strip(query) = << "*" >> THEN FALSE
    ELSE IF Len(Strip(query)) < 2 THEN FALSE
    ELSE TRUE

-----------------------------------------------------------------------------
(* The fold as a state machine: one step per fragment *)

VARIABLES
    fragments,                      \* the fragments as the classifier built them
    heap,                           \* the Citation objects
    citations,                      \* the caller's list (heap indices)
    consolidated,
    current_external_law,
    current_internal_article_idx,
    extractor,                      \* the module-level _extractor exists
    cache,                          \* its _lsi_seq_cache
    pc,                             \* where each tool call is suspended
    args,                           \* the arguments of each tool call
    lsi_seq,                        \* extract_citations' local lsi_seq
    result,                         \* what the tool call returned
    lookup_reply,                   \* the reply the call's lookup got, if any
    fetch_reply,                    \* the reply the call's fetch got, if any
    concurrent,                     \* a call was started while another was in flight
    sent,                           \* the requests each call made of the collaborators
    results,                        \* the list rank_search_results is given
    query,                          \* the search query
    ranked,                         \* the list rank_search_results returned
    should_rank,                    \* what should_apply_ranking returned
    rank_pc                         \* idle, or returned once the function ran

foldVars == << fragments, heap, citations, consolidated,
               current_external_law, current_internal_article_idx >>

extractVars == << extractor, cache, pc, args, lsi_seq, result,
                  lookup_reply, fetch_reply, concurrent, sent >>

rankVars == << results, query, ranked, should_rank, rank_pc >>

vars == << foldVars, extractVars, rankVars >>

\* The tool calls of the model, and the arguments they are made with.
Calls == {"c1", "c2"}
LawIds == {"m1", "m2"}
LawNames == {"", "N1", "N2"}
ArticleNumbers == {0 - 1, 0, 1}
BranchNumbers == {0, 1}

NoArgs == [mst |-> "", law_name |-> "", article |-> 0, article_branch |-> 0]
NoReply == Response(0, << >>)
NoResult == [status |-> "pending"]

InitExtractVars ==
    /\ extractor = FALSE
    /\ cache = EmptyCache
    /\ pc = [c \in Calls |-> "idle"]
    /\ args = [c \in Calls |-> NoArgs]
    /\ lsi_seq = [c \in Calls |-> NoSeq]
    /\ result = [c \in Calls |-> NoResult]
    /\ lookup_reply = [c \in Calls |-> NoReply]
    /\ fetch_reply = [c \in Calls |-> NoReply]
    /\ concurrent = FALSE
    /\ sent = [c \in Calls |-> << >>]

\* The ranking functions have not been called.
InitRankVars ==
    /\ results = << >>
    /\ query = << >>
    /\ ranked = << >>
    /\ should_rank = FALSE
    /\ rank_pc = "idle"

\* The law whose article is being read (source_law_name).
SourceLaw == BareText("S")

Directive == << "1", "JO" >>

Link(cls, text) ==
    [tag |-> "a", onclick |-> Directive, text |-> text, classes |-> << "link", cls >>]

\* The anchors the fold is fed: every marker, with its number parsed or not.
FoldAnchors ==
    { Link("sfon1", LawText("A")), Link("sfon1", BareText("B")),
      Link("sfon1", << >>), Link("sfon1", SameLawText),
      Link("sfon2", ArticleText(1, None)), Link("sfon2", ArticleText(2, 1)),
      Link("sfon2", << >>),
      Link("sfon3", ParagraphText(1)), Link("sfon3", ParagraphText(2)),
      Link("sfon3", << >>),
      Link("sfon4", ItemText(1)), Link("sfon4", ItemText(2)),
      Link("sfon5", BareText("x")) }

\* The function's state as a record.
FoldState ==
    [ heap |-> heap,
      citations |-> citations,
      consolidated |-> consolidated,
      current_external_law |-> current_external_law,
      current_internal_article_idx |-> current_internal_article_idx ]

InitFoldVars ==
    /\ fragments = << >>
    /\ heap = FoldInit.heap
    /\ citations = FoldInit.citations
    /\ consolidated = FoldInit.consolidated
    /\ current_external_law = FoldInit.current_external_law
    /\ current_internal_article_idx = FoldInit.current_internal_article_idx

\* The loop body on the fragment the classifier makes of anchor link.
LoopBody(link) ==
    LET parsed == ParseSingleLink(link, SourceLaw) IN
    /\ Len(fragments) < MaxLen
    /\ parsed # << >>
    /\ LET st == FoldStep(FoldState, parsed[1]) IN
        /\ fragments' = Append(fragments, parsed[1])
        /\ heap' = st.heap
        /\ citations' = st.citations
        /\ consolidated' = st.consolidated
        /\ current_external_law' = st.current_external_law
        /\ current_internal_article_idx' = st.current_internal_article_idx

InitFold == InitFoldVars /\ InitExtractVars /\ InitRankVars

NextFold ==
    \E link \in FoldAnchors : LoopBody(link) /\ UNCHANGED << extractVars, rankVars >>

SpecFold == InitFold /\ [][NextFold]_vars

\* The list returned so far, and the caller's list as it now is.
Output == Returned(FoldState)
InputNow == CallerList(FoldState)

-----------------------------------------------------------------------------
(* The extraction pipeline as a state machine: one step per suspension *)

InFlight == {"lookup", "sleep", "fetch"}

\* The requests of a call: client.get on the law page of a name, and client.get
\* on the article panel with the parameters of the fetch.
NoParams == [lsiSeq |-> "", joNo |-> << >>, joBrNo |-> << >>]
LookupRequest(law_name) == [kind |-> "lookup", law_name |-> law_name, params |-> NoParams]
FetchRequest(params) == [kind |-> "fetch", law_name |-> "", params |-> params]

\* A delay that sleeps on the thread of the event loop (time.sleep).
HoldsLoop_TimeSleep(c) == pc[c] = "sleep"

\* Call c keeps the event loop to itself while it is suspended: never, every
\* suspension is an await (client.get, asyncio.sleep) that yields to the loop.
HoldsLoop(c) == FALSE

\* The event loop can run call c: no other call holds it.
CanRun(c) == \A d \in Calls \ {c} : ~HoldsLoop(d)

\* The tool returns value r to its caller.
Return(c, r) ==
    /\ pc' = [pc EXCEPT ![c] = "returned"]
    /\ result' = [result EXCEPT ![c] = r]

\* The tool article_citation is called: validation, get_extractor, and
\* extract_citations up to its first suspension (client.get of the lookup on a
\* cache miss, asyncio.sleep of the fetch on a cache hit).
ArticleCitation(c, mst, law_name, article, article_branch) ==
    /\ pc[c] = "idle"
    /\ CanRun(c)
    /\ args' = [args EXCEPT ![c] = [mst |-> mst, law_name |-> law_name,
                                    article |-> article,
                                    article_branch |-> article_branch]]
    /\ concurrent' = (concurrent \/ \E d \in Calls \ {c} : pc[d] \in InFlight)
    /\ UNCHANGED << lookup_reply, fetch_reply >>
    /\ IF ValidationError(mst, law_name, article) # ""
       THEN /\ Return(c, CreateErrorResponse("VALIDATION_ERROR",
                                             ValidationError(mst, law_name, article)))
            /\ UNCHANGED << extractor, cache, lsi_seq, sent >>
       ELSE /\ extractor' = TRUE
            /\ cache' = IF extractor THEN cache ELSE EmptyCache
            /\ IF CacheHas(cache, mst)
               THEN /\ lsi_seq' = [lsi_seq EXCEPT ![c] = cache[mst]]
                    /\ pc' = [pc EXCEPT ![c] = "sleep"]
                    /\ UNCHANGED sent
               ELSE /\ pc' = [pc EXCEPT ![c] = "lookup"]
                    /\ sent' = [sent EXCEPT ![c] = Append(@, LookupRequest(law_name))]
                    /\ UNCHANGED lsi_seq
            /\ UNCHANGED result

\* client.get of get_lsi_seq answers: get_lsi_seq finishes, and extract_citations
\* either returns the lookup failure or goes on into fetch_article_html up to
\* its asyncio.sleep.
LookupReturn(c, reply) ==
    /\ pc[c] = "lookup"
    /\ CanRun(c)
    /\ lookup_reply' = [lookup_reply EXCEPT ![c] = reply]
    /\ LET r == GetLsiSeqResume(cache, args[c].mst, reply) IN
        /\ cache' = r.cache
        /\ IF r.raised
           THEN /\ Return(c, CreateErrorResponse("INTERNAL_ERROR", "Unexpected error"))
                /\ UNCHANGED lsi_seq
           ELSE IF FalsySeq(r.ret)
           THEN /\ Return(c, LookupFailure(args[c]))
                /\ UNCHANGED lsi_seq
           ELSE /\ lsi_seq' = [lsi_seq EXCEPT ![c] = r.ret]
                /\ pc' = [pc EXCEPT ![c] = "sleep"]
                /\ UNCHANGED result
    /\ UNCHANGED << extractor, args, fetch_reply, concurrent, sent >>

\* asyncio.sleep(request_delay) is over: the fetch request is sent.
SleepReturn(c) ==
    /\ pc[c] = "sleep"
    /\ CanRun(c)
    /\ pc' = [pc EXCEPT ![c] = "fetch"]
    /\ sent' = [sent EXCEPT ![c] = Append(@, FetchRequest(
                    FetchParams(lsi_seq[c], args[c].article, args[c].article_branch)))]
    /\ UNCHANGED << extractor, cache, args, lsi_seq, result,
                    lookup_reply, fetch_reply, concurrent >>

\* A fetch that is sent once more after a failure.
FetchReturn_Retry(c, reply) ==
    /\ pc[c] = "fetch"
    /\ CanRun(c)
    /\ fetch_reply' = [fetch_reply EXCEPT ![c] = reply]
    /\ LET r == FetchArticleHtmlResume(reply) IN
        IF FalsyHtml(r.ret) /\ Len(sent[c]) < 3
        THEN /\ sent' = [sent EXCEPT ![c] = Append(@, sent[c][Len(sent[c])])]
             /\ UNCHANGED << pc, result >>
        ELSE /\ UNCHANGED sent
             /\ IF FalsyHtml(r.ret)
                THEN Return(c, FetchFailure(args[c]))
                ELSE Return(c, ExtractSuccess(args[c], r.ret))
    /\ UNCHANGED << extractor, cache, args, lsi_seq, lookup_reply, concurrent >>

\* client.get of fetch_article_html answers: the rest of extract_citations.
FetchReturn(c, reply) ==
    /\ pc[c] = "fetch"
    /\ CanRun(c)
    /\ fetch_reply' = [fetch_reply EXCEPT ![c] = reply]
    /\ LET r == FetchArticleHtmlResume(reply) IN
        IF r.raised
        THEN Return(c, CreateErrorResponse("INTERNAL_ERROR", "Unexpected error"))
        ELSE IF FalsyHtml(r.ret)
        THEN Return(c, FetchFailure(args[c]))
        ELSE Return(c, ExtractSuccess(args[c], r.ret))
    /\ UNCHANGED << extractor, cache, args, lsi_seq, lookup_reply, concurrent, sent >>

\* The parameters call c sends (or will send) to the fetch collaborator.
ParamsOf(c) == FetchParams(lsi_seq[c], args[c].article, args[c].article_branch)

InitExtract == InitFoldVars /\ InitExtractVars /\ InitRankVars

NextExtract ==
    \/ \E c \in Calls, mst \in LawIds, law_name \in LawNames,
          article \in ArticleNumbers, article_branch \in BranchNumbers :
            ArticleCitation(c, mst, law_name, article, article_branch)
            /\ UNCHANGED << foldVars, rankVars >>
    \/ \E c \in Calls : \E reply \in LookupReplies(args[c].law_name) :
            LookupReturn(c, reply) /\ UNCHANGED << foldVars, rankVars >>
    \/ \E c \in Calls : SleepReturn(c) /\ UNCHANGED << foldVars, rankVars >>
    \/ \E c \in Calls : \E reply \in FetchReplies(ParamsOf(c)) :
            FetchReturn(c, reply) /\ UNCHANGED << foldVars, rankVars >>

SpecExtract == InitExtract /\ [][NextExtract]_vars

\* The steps of call c that an answer or the end of the delay enables.
LookupStep(c) ==
    \E reply \in LookupReplies(args[c].law_name) :
        LookupReturn(c, reply) /\ UNCHANGED << foldVars, rankVars >>
SleepStep(c) == SleepReturn(c) /\ UNCHANGED << foldVars, rankVars >>
FetchStep(c) ==
    \E reply \in FetchReplies(ParamsOf(c)) :
        FetchReturn(c, reply) /\ UNCHANGED << foldVars, rankVars >>
StartStep(c) ==
    \E mst \in LawIds, law_name \in LawNames,
       article \in ArticleNumbers, article_branch \in BranchNumbers :
        ArticleCitation(c, mst, law_name, article, article_branch)
        /\ UNCHANGED << foldVars, rankVars >>

\* Every client.get is answered (httpx raises at its timeout at the latest) and
\* every asyncio.sleep ends; the event loop resumes the coroutine.
Fairness ==
    \A c \in Calls :
        /\ WF_vars(LookupStep(c))
        /\ WF_vars(SleepStep(c))
        /\ WF_vars(FetchStep(c))

SpecExtractLive == InitExtract /\ [][NextExtract]_vars /\ Fairness

-----------------------------------------------------------------------------
(* Ranking as a state machine: the inputs are drawn, the function is applied *)

\* Bounds of the ranking: the longest list ranked, the longest query gated.
MaxResults == 3
MaxQueryLen == 3

\* The field the ranking reads, and a record's other field.
NameField == "name"

\* The names of the upstream records; Missing stands for a record without the
\* field.
Missing == << "<missing>" >>
NamePool ==
    { << "a", "b" >>,                          \* ab
      << "A", "b" >>,                          \* Ab
      << " ", "a", "b" >>,                     \* ab after a space
      << "a", "b", " ", "c" >>,                \* ab c
      << "c", " ", "a", "b" >>,                \* c ab
      << "c", "a", "b" >>,                     \* cab
      << "c", "a", "b", " ", "a", "b" >>,      \* cab ab
      << "c" >>,                               \* c
      << >>,                                   \* the empty name
      Missing }

\* The i-th record of an upstream response.
Record(i, name) == IF name = Missing THEN [id |-> i] ELSE [id |-> i, name |-> name]

ResultLists ==
    UNION { { [i \in 1..k |-> Record(i, names[i])] : names \in [1..k -> NamePool] }
            : k \in 0..MaxResults }

\* The queries rank_search_results is called with.
RankQueries ==
    { << >>, << " " >>, << "a", "b" >>, << "A", "B" >>, << " ", "a", "b" >>, << "b" >> }

\* The queries should_apply_ranking is called with: every string of these
\* characters up to the bound.
GateChars == {" ", "*", "a", "b"}
GateQueries == UNION { [1..k -> GateChars] : k \in 0..MaxQueryLen }

\* rank_search_results(results, query, NameField) is called and returns.
RankCall ==
    /\ rank_pc = "idle"
    /\ LET r == RankSearchResults(results, query, NameField) IN
        /\ ranked' = r.ret
        /\ results' = r.results
    /\ rank_pc' = "returned"
    /\ UNCHANGED << query, should_rank >>

\* should_apply_ranking(query) is called and returns.
GateCall ==
    /\ rank_pc = "idle"
    /\ should_rank' = ShouldApplyRanking(query)
    /\ rank_pc' = "returned"
    /\ UNCHANGED << query, results, ranked >>

InitRank ==
    /\ InitFoldVars /\ InitExtractVars
    /\ results \in ResultLists
    /\ query \in RankQueries
    /\ ranked = << >>
    /\ should_rank = FALSE
    /\ rank_pc = "idle"

NextRank == RankCall /\ UNCHANGED << foldVars, extractVars >>

SpecRank == InitRank /\ [][NextRank]_vars

InitGate ==
    /\ InitFoldVars /\ InitExtractVars
    /\ results = << >>
    /\ query \in GateQueries
    /\ ranked = << >>
    /\ should_rank = FALSE
    /\ rank_pc = "idle"

NextGate == GateCall /\ UNCHANGED << foldVars, extractVars >>

SpecGate == InitGate /\ [][NextGate]_vars

-----------------------------------------------------------------------------
(* Properties of the fold *)

IsLawName(f) == f.link_class = "sfon1"
IsArticle(f) == f.link_class = "sfon2"
IsParagraph(f) == f.link_class = "sfon3"

\* The input from position i to its end.
From(i) == SubSeq(fragments, i, Len(fragments))
Upto(i) == SubSeq(fragments, 1, i)

\* C1: consolidation is idempotent: consolidating the returned list (as fresh
\* values) returns that list again, entry by entry.
C1_Idempotent == Consolidate(Output) = Output

\* The input ends with: external law name (non-empty), article a >= 1,
\* paragraph p >= 1.
EndsWithTriple ==
    LET n == Len(fragments) IN
    /\ n >= 3
    /\ IsLawName(fragments[n - 2])
    /\ fragments[n - 2].citation_type = "external"
    /\ fragments[n - 2].target_law_name # << >>
    /\ IsArticle(fragments[n - 1]) /\ fragments[n - 1].target_article >= 1
    /\ IsParagraph(fragments[n]) /\ fragments[n].target_paragraph >= 1

\* C2: an external law name L followed by article a and paragraph p is returned
\* as exactly one citation, with law_name L, article a, paragraph p, scope
\* external (after whatever the fragments before the law name produced).
C2_MergeCorrect ==
    EndsWithTriple =>
        LET n == Len(fragments)
            one == Consolidate(From(n - 2))
            last == Output[Len(Output)]
        IN  /\ Len(one) = 1
            /\ Output = Consolidate(Upto(n - 3)) \o one
            /\ last.target_law_name = fragments[n - 2].target_law_name
            /\ last.target_article = fragments[n - 1].target_article
            /\ last.target_paragraph = fragments[n].target_paragraph
            /\ last.citation_type = "external"

C2_Witness ==
    /\ Len(fragments) = 3
    /\ EndsWithTriple
    /\ Len(Output) = 1
    /\ Output[1].target_article = 1

\* The input is X, article a >= 1 at position j, then k >= 1 paragraphs with
\* numbers >= 1, and X holds no law name.
ArticleThenParagraphs(j) ==
    /\ j < Len(fragments)
    /\ IsArticle(fragments[j]) /\ fragments[j].target_article >= 1
    /\ \A i \in (j + 1)..Len(fragments) :
          IsParagraph(fragments[i]) /\ fragments[i].target_paragraph >= 1
    /\ \A i \in 1..(j - 1) : ~IsLawName(fragments[i])

\* C3: an article a followed by k paragraphs p1..pk, with no law name before,
\* is returned as exactly k citations, all internal with article a, whose
\* paragraphs are p1..pk in that order.
C3_ForkCorrect ==
    \A j \in 1..Len(fragments) :
        ArticleThenParagraphs(j) =>
            LET k == Len(fragments) - j
                base == Len(Consolidate(Upto(j - 1)))
            IN  /\ Len(Output) = base + k
                /\ Len(Consolidate(From(j))) = k
                /\ \A i \in 1..k :
                      /\ Output[base + i].citation_type = "internal"
                      /\ Output[base + i].target_article = fragments[j].target_article
                      /\ Output[base + i].target_paragraph
                            = fragments[j + i].target_paragraph

C3_Witness ==
    /\ Len(fragments) = 4
    /\ ArticleThenParagraphs(1)
    /\ fragments[2].target_paragraph # fragments[3].target_paragraph
    /\ Len(Output) = 3

\* C4: a law-name fragment starts a new context: the result for X ++ [n] ++ Y
\* is the result for X followed by the result for [n] ++ Y.
C4_ContextReset ==
    \A k \in 1..Len(fragments) :
        IsLawName(fragments[k]) =>
            Output = Consolidate(Upto(k - 1)) \o Consolidate(From(k))

\* A law name in the middle, with a merge before it and a merge after it.
C4_Witness ==
    /\ Len(fragments) = 4
    /\ IsArticle(fragments[1]) /\ IsParagraph(fragments[2])
    /\ IsLawName(fragments[3]) /\ IsParagraph(fragments[4])
    /\ Len(Output) = 2
    /\ TruthyInt(Output[1].target_paragraph)
    /\ TruthyInt(Output[2].target_paragraph)

\* C5: consolidation leaves the Citation objects of the list it is given as
\* they were, so a second call on the same list returns an equal result.
C5_InputUntouched ==
    /\ InputNow = fragments
    /\ Consolidate(InputNow) = Output

IsDetail(f) == f.link_class \in {"sfon3", "sfon4"}

\* The function's state after the first i fragments.
StateAt(i) == FoldFrom(FoldInit, Upto(i))

\* C16: in every fragment of the classifier and in every entry of the list
\* after every step, article_branch is set only if article is set.
C16_BranchNeedsArticle ==
    /\ \A i \in DOMAIN fragments :
          fragments[i].target_article_branch # None => fragments[i].target_article # None
    /\ \A i \in DOMAIN Output :
          Output[i].target_article_branch # None => Output[i].target_article # None

\* An article with a branch was merged into a law citation, and a paragraph
\* forked from it.
C16_Witness ==
    /\ Len(Output) = 2
    /\ \A i \in 1..2 :
          /\ Output[i].citation_type = "external"
          /\ Output[i].target_article = 2
          /\ Output[i].target_article_branch = 1

\* Every fragment from j + 1 to i is a paragraph or item fragment.
DetailsOnly(j, i) == \A k \in (j + 1)..i : IsDetail(fragments[k])

\* Fragment i attached to entry e of the list: it was merged into it in place
\* (no new entry, its text joined to the entry's), or it was forked from it (the
\* entry held the same kind of field already; one new entry, of the entry's
\* article and scope).
AttachesTo(i, e) ==
    LET before == StateAt(i - 1)
        after == StateAt(i)
        target == Returned(before)[e]
        f == fragments[i]
    IN  \/ /\ Len(after.consolidated) = Len(before.consolidated)
           /\ Returned(after)[e].target_text = target.target_text \o << Sp >> \o f.target_text
        \/ /\ Len(after.consolidated) = Len(before.consolidated) + 1
           /\ \/ IsParagraph(f) /\ target.target_paragraph # None
              \/ f.link_class = "sfon4" /\ target.target_item # None
           /\ Returned(after)[Len(after.consolidated)].target_article = target.target_article
           /\ Returned(after)[Len(after.consolidated)].citation_type = target.citation_type

\* Fragment j is an article fragment that was appended as a new entry.
AppendedArticle(j) ==
    /\ IsArticle(fragments[j])
    /\ Len(StateAt(j).consolidated) = Len(StateAt(j - 1).consolidated) + 1

\* C17: the paragraph and item fragments that follow an internal article
\* fragment whose number was not parsed attach to the entry of that article.
C17_UnsetArticleAttaches ==
    \A j \in 1..Len(fragments) :
        (AppendedArticle(j) /\ fragments[j].target_article = None) =>
            \A i \in (j + 1)..Len(fragments) :
                DetailsOnly(j, i) => AttachesTo(i, Len(StateAt(j).consolidated))

\* Fragment j is an article fragment that arrives while the last entry is an
\* external citation that has an article.
AfterCompleteExternal(j) ==
    /\ IsArticle(fragments[j])
    /\ LET b == StateAt(j - 1) IN
        /\ Len(b.consolidated) > 0
        /\ b.heap[LastRef(b)].citation_type = "external"
        /\ b.heap[LastRef(b)].target_article # None

\* C19: such an article fragment is appended as a new internal entry and clears
\* the external-law context; the paragraph and item fragments that follow it
\* attach to the new entry, and the external entry stays as it was.
C19_ArticleAfterExternal ==
    \A j \in 1..Len(fragments) :
        AfterCompleteExternal(j) =>
            LET b == StateAt(j - 1)
                a == StateAt(j)
                e == Len(b.consolidated) + 1
            IN  /\ Len(a.consolidated) = e
                /\ Returned(a)[e].citation_type = "internal"
                /\ a.current_external_law = NoName
                /\ \A i \in (j + 1)..Len(fragments) :
                      DetailsOnly(j, i) =>
                          /\ AttachesTo(i, e)
                          /\ Returned(StateAt(i))[e - 1] = Returned(b)[e - 1]

\* The last fragment is a paragraph (item) fragment that arrives under an
\* external-law context when the last entry has a paragraph (item).
ExternalCollision ==
    LET n == Len(fragments) IN
    /\ n >= 1
    /\ LET b == StateAt(n - 1) IN
        /\ HasExternalContext(b)
        /\ \/ IsParagraph(fragments[n]) /\ b.heap[LastRef(b)].target_paragraph # None
           \/ fragments[n].link_class = "sfon4" /\ b.heap[LastRef(b)].target_item # None

\* C20: such a fragment appends one external entry that has the law name,
\* article and branch of the last entry and, of paragraph and item, only the
\* fragment's own; the entries there were stay as they were.
C20_ExternalFork ==
    ExternalCollision =>
        LET n == Len(fragments)
            b == StateAt(n - 1)
            last == b.heap[LastRef(b)]
            new == Output[Len(Output)]
        IN  /\ Len(Output) = Len(b.consolidated) + 1
            /\ SubSeq(Output, 1, Len(b.consolidated)) = Returned(b)
            /\ new.citation_type = "external"
            /\ new.target_law_name = last.target_law_name
            /\ new.target_article = last.target_article
            /\ new.target_article_branch = last.target_article_branch
            /\ new.target_paragraph = fragments[n].target_paragraph
            /\ new.target_item = fragments[n].target_item
            /\ IsParagraph(fragments[n]) => new.target_item = None
            /\ fragments[n].link_class = "sfon4" => new.target_paragraph = None

\* C26: after every step the external-law context and the internal-article
\* index are not both set; when the context is set, the last entry is an
\* external citation of that law; when the index is set, it is the position of
\* an entry that is an article fragment of the input, with scope internal.
C26_StateInvariant ==
    /\ ~(TruthyStr(current_external_law) /\ current_internal_article_idx # 0)
    /\ TruthyStr(current_external_law) =>
          /\ Len(consolidated) > 0
          /\ Output[Len(Output)].citation_type = "external"
          /\ Output[Len(Output)].target_law_name = current_external_law
    /\ current_internal_article_idx # 0 =>
          /\ current_internal_article_idx \in 1..Len(consolidated)
          /\ Output[current_internal_article_idx].citation_type = "internal"
          /\ \E k \in DOMAIN citations :
                /\ citations[k] = consolidated[current_internal_article_idx]
                /\ IsArticle(fragments[k])

\* The index is set and is not the last entry (a fork followed the article).
C26_Witness ==
    /\ current_internal_article_idx = 2
    /\ Len(consolidated) = 3
    /\ current_external_law = NoName

\* An entry was forked from the entry e of article fragment j before the last
\* fragment: the entries after e have the article's number and hold a paragraph
\* or item that entry e held already.
ForkedFrom(j, e) ==
    LET before == Returned(StateAt(Len(fragments) - 1)) IN
    /\ Len(before) > e
    /\ \A k \in (e + 1)..Len(before) :
          /\ before[k].target_article = fragments[j].target_article
          /\ before[k].target_article # None
          /\ \/ before[k].target_paragraph # None /\ before[e].target_paragraph # None
             \/ before[k].target_item # None /\ before[e].target_item # None

\* C27: after a fork under an internal article the index still points at the
\* article's entry, and a fragment of a kind that entry does not hold yet is
\* merged into that entry; the forked entries stay as they were.
C27_ForksNotTargets ==
    \A j \in 1..Len(fragments) :
        LET n == Len(fragments)
            e == Len(StateAt(j).consolidated)
            before == StateAt(n - 1)
            f == fragments[n]
        IN  ( /\ j < n
              /\ AppendedArticle(j)
              /\ DetailsOnly(j, n)
              /\ ForkedFrom(j, e) )
            => /\ current_internal_article_idx = e
               /\ ( \/ IsParagraph(f) /\ Returned(before)[e].target_paragraph = None
                    \/ f.link_class = "sfon4" /\ Returned(before)[e].target_item = None )
                  => /\ Len(Output) = Len(before.consolidated)
                     /\ Output[e].target_text
                           = Returned(before)[e].target_text \o << Sp >> \o f.target_text
                     /\ f.target_item # None => Output[e].target_item = f.target_item
                     /\ f.target_paragraph # None
                           => Output[e].target_paragraph = f.target_paragraph
                     /\ \A k \in DOMAIN Output :
                           k # e => Output[k] = Returned(before)[k]

\* Article, two paragraphs, item: the item is on the entry of the first
\* paragraph and not on the fork.
C27_Witness ==
    /\ Len(fragments) = 4
    /\ IsArticle(fragments[1])
    /\ fragments[4].link_class = "sfon4"
    /\ Len(Output) = 2
    /\ Output[1].target_item = fragments[4].target_item
    /\ Output[1].target_paragraph = fragments[2].target_paragraph
    /\ Output[2].target_item = None

\* C30: a fragment whose marker is none of the four is of scope unknown and
\* changes neither the list nor the two pointers; the list never has more
\* entries than the input has fragments.
C30_UnknownDropped ==
    [][Len(fragments') = Len(fragments) + 1 =>
          /\ fragments'[Len(fragments')].link_class \notin {"sfon1", "sfon2", "sfon3", "sfon4"}
                => /\ fragments'[Len(fragments')].citation_type = "unknown"
                   /\ Output' = Output
                   /\ current_external_law' = current_external_law
                   /\ current_internal_article_idx' = current_internal_article_idx
          /\ Len(Output') <= Len(fragments')]_vars

\* A paragraph was merged into its article across a fragment of unknown marker.
C30_Witness ==
    /\ Len(fragments) = 3
    /\ IsArticle(fragments[1])
    /\ fragments[2].citation_type = "unknown"
    /\ IsParagraph(fragments[3])
    /\ Len(Output) = 1
    /\ Output[1].target_paragraph = fragments[3].target_paragraph
    /\ current_internal_article_idx = 1

-----------------------------------------------------------------------------
(* Properties of the extraction pipeline *)

IsCitationResult(r) == "success" \in DOMAIN r
IsRejection(r) == "error_code" \in DOMAIN r /\ r.error_code = "VALIDATION_ERROR"

\* The collaborator was called and failed: it raised, answered with a status
\* other than 200, or answered without the data asked for.
LookupFailed(reply) ==
    /\ reply # NoReply
    /\ reply.exc \/ reply.status_code # 200 \/ Search(reply.text, "lsiSeq") = 0
FetchFailed(reply) ==
    /\ reply # NoReply
    /\ reply.exc \/ reply.status_code # 200 \/ reply.text = << >>

\* C6: when the lookup or the fetch collaborator fails, the call returns a
\* CitationResult with success false, no citations, zero counts and an error
\* message; no exception reaches the caller.
C6_FailuresReported ==
    \A c \in Calls :
        (LookupFailed(lookup_reply[c]) \/ FetchFailed(fetch_reply[c])) =>
            /\ pc[c] = "returned"
            /\ IsCitationResult(result[c])
            /\ result[c].success = FALSE
            /\ result[c].citation_count = 0
            /\ result[c].citations = << >>
            /\ result[c].internal_count = 0
            /\ result[c].external_count = 0
            /\ result[c].errors # << >>

\* One call whose lookup raised and one whose fetch got a 404, both returned.
C6_Witness ==
    /\ lookup_reply["c1"] = Raised
    /\ pc["c1"] = "returned"
    /\ fetch_reply["c2"] # NoReply /\ fetch_reply["c2"].status_code = 404
    /\ pc["c2"] = "returned"
    /\ ~result["c2"].success

\* The page holds no citation anchor (an anchor with a popup directive).
NoCitationAnchor(html) ==
    \A i \in DOMAIN html : ~(IsCitationLink(html[i]) /\ html[i].onclick # << >>)

\* C7: a returned CitationResult has success false exactly when the lookup or
\* the fetch failed; when both returned data and the page holds no citation
\* anchor, the result has success true, citation_count 0 and no errors.
C7_FailureDistinct ==
    \A c \in Calls :
        (pc[c] = "returned" /\ ~IsRejection(result[c])) =>
            /\ IsCitationResult(result[c])
            /\ result[c].success = FALSE
                  <=> (LookupFailed(lookup_reply[c]) \/ FetchFailed(fetch_reply[c]))
            /\ ( /\ ~LookupFailed(lookup_reply[c])
                 /\ fetch_reply[c] # NoReply
                 /\ ~FetchFailed(fetch_reply[c])
                 /\ NoCitationAnchor(fetch_reply[c].text) )
               => /\ result[c].success = TRUE
                  /\ result[c].citation_count = 0
                  /\ result[c].errors = << >>

\* A page without citation anchors was fetched and reported as an empty success.
C7_Witness ==
    /\ pc["c1"] = "returned"
    /\ fetch_reply["c1"] # NoReply
    /\ ~FetchFailed(fetch_reply["c1"])
    /\ NoCitationAnchor(fetch_reply["c1"].text)
    /\ result["c1"].success
    /\ result["c1"].citation_count = 0

\* C8: an entry of the cache is never overwritten with another value and never
\* removed.
C8_CacheAppendOnly ==
    [][\A m \in DOMAIN cache : m \in DOMAIN cache' /\ cache'[m] = cache[m]]_vars

\* What extract_citations returns for arguments a when its own lookup got reply
\* lr and its own fetch got reply fr.
OwnResult(a, lr, fr) ==
    IF LookupFailed(lr) THEN LookupFailure(a)
    ELSE IF FetchFailed(fr) THEN FetchFailure(a)
    ELSE ExtractSuccess(a, fr.text)

\* Call c has arguments that pass validation, and no other call has its law id.
AloneOnLawId(c) ==
    /\ pc[c] # "idle"
    /\ ValidationError(args[c].mst, args[c].law_name, args[c].article) = ""
    /\ \A d \in Calls \ {c} : pc[d] = "idle" \/ args[d].mst # args[c].mst

\* C9: a call whose law id no other call has is served by its own lookup, sends
\* the id of its own law to the fetch, and returns what its own arguments and
\* its own replies determine, whatever the other call does meanwhile.
C9_Independent ==
    \A c \in Calls :
        AloneOnLawId(c) =>
            /\ pc[c] # "lookup" => lookup_reply[c] # NoReply
            /\ pc[c] \in {"sleep", "fetch"} => lsi_seq[c] = SiteSeq(args[c].law_name)
            /\ fetch_reply[c] # NoReply =>
                  fetch_reply[c] \in FetchReplies(
                      FetchParams(SiteSeq(args[c].law_name),
                                  args[c].article, args[c].article_branch))
            /\ pc[c] = "returned" =>
                  result[c] = OwnResult(args[c], lookup_reply[c], fetch_reply[c])

\* Two calls with different law ids ran concurrently and both returned citations.
C9_Witness ==
    /\ concurrent
    /\ args["c1"].mst # args["c2"].mst
    /\ args["c1"].law_name # args["c2"].law_name
    /\ \A c \in Calls :
          /\ pc[c] = "returned"
          /\ IsCitationResult(result[c])
          /\ result[c].citation_count > 0

\* C10: a call with a non-positive article number returns a validation
\* rejection at once: it calls neither collaborator and changes nothing of the
\* extractor or its cache.
C10_Rejected ==
    [][\A c \in Calls :
          (pc[c] = "idle" /\ pc'[c] # "idle" /\ args'[c].article <= 0) =>
              /\ pc'[c] = "returned"
              /\ IsRejection(result'[c])
              /\ ~IsCitationResult(result'[c])
              /\ lookup_reply'[c] = NoReply /\ fetch_reply'[c] = NoReply
              /\ cache' = cache /\ extractor' = extractor]_vars

\* A call with article 0 was rejected after another call had filled the cache.
C10_Witness ==
    /\ pc["c1"] = "returned"
    /\ args["c1"].article = 0
    /\ args["c1"].law_name # ""
    /\ IsRejection(result["c1"])
    /\ cache # EmptyCache

\* C15: the article of every CitationResult, success or failure, is the
\* article number between its two affixes, followed by the branch affix and the
\* branch number exactly when article_branch > 0.
C15_ArticleDisplay ==
    \A c \in Calls :
        (pc[c] = "returned" /\ IsCitationResult(result[c])) =>
            LET display == result[c].article IN
            /\ Len(display) >= 3
            /\ SubSeq(display, 1, 3) = << Lit("je"), Num(args[c].article), Lit("jo") >>
            /\ args[c].article_branch > 0 =>
                  /\ Len(display) = 5
                  /\ display[4] = Lit("ui")
                  /\ display[5] = Num(args[c].article_branch)
            /\ args[c].article_branch <= 0 => Len(display) = 3

\* A success for a branch article and a failure for an article without branch.
C15_Witness ==
    /\ pc["c1"] = "returned" /\ IsCitationResult(result["c1"])
    /\ result["c1"].success /\ args["c1"].article_branch = 1
    /\ Len(result["c1"].article) = 5
    /\ pc["c2"] = "returned" /\ IsCitationResult(result["c2"])
    /\ ~result["c2"].success /\ args["c2"].article_branch = 0
    /\ Len(result["c2"].article) = 3

\* The requests of kind k among the requests of call c.
Requests(c, k) == {i \in DOMAIN sent[c] : sent[c][i].kind = k}

\* The id a successful lookup reply holds.
SeqOf(reply) == reply.text[Search(reply.text, "lsiSeq")].v

\* C21: a call sends its fetch only after it has resolved the site sequence id
\* (from the cache, or from a successful lookup of its own) and sends exactly
\* that id; after a failed lookup it sends no fetch.
C21_FetchAfterLookup ==
    [][\A c \in Calls :
          /\ lsi_seq'[c] # lsi_seq[c] =>
                \/ /\ pc[c] = "idle"
                   /\ args'[c].mst \in DOMAIN cache
                   /\ lsi_seq'[c] = cache[args'[c].mst]
                \/ /\ pc[c] = "lookup"
                   /\ ~LookupFailed(lookup_reply'[c])
                   /\ lsi_seq'[c] = SeqOf(lookup_reply'[c])
          /\ Requests(c, "fetch")' # Requests(c, "fetch") =>
                /\ lsi_seq[c] # NoSeq
                /\ lookup_reply[c] = NoReply \/ ~LookupFailed(lookup_reply[c])
                /\ sent'[c][Len(sent'[c])].params.lsiSeq = lsi_seq[c]
          /\ LookupFailed(lookup_reply'[c]) => Requests(c, "fetch")' = {}]_vars

\* One call sent its fetch after its own lookup, the other after a cache hit.
C21_Witness ==
    /\ Requests("c1", "lookup") # {} /\ Requests("c1", "fetch") # {}
    /\ Requests("c2", "lookup") = {} /\ Requests("c2", "fetch") # {}
    /\ sent["c2"][1].params.lsiSeq = lsi_seq["c2"]

\* C22: a call makes at most one lookup request and at most one fetch request;
\* after a failed answer it has returned a failure with an error and has made
\* no request beyond the one that failed.
C22_NoRetry ==
    \A c \in Calls :
        /\ Cardinality(Requests(c, "lookup")) <= 1
        /\ Cardinality(Requests(c, "fetch")) <= 1
        /\ LookupFailed(lookup_reply[c]) =>
              /\ pc[c] = "returned"
              /\ sent[c] = << LookupRequest(args[c].law_name) >>
              /\ IsCitationResult(result[c]) /\ result[c].errors # << >>
        /\ FetchFailed(fetch_reply[c]) =>
              /\ pc[c] = "returned"
              /\ sent[c][Len(sent[c])].kind = "fetch"
              /\ IsCitationResult(result[c]) /\ result[c].errors # << >>

\* A call whose fetch failed after a successful lookup: two requests in all.
C22_Witness ==
    /\ pc["c1"] = "returned"
    /\ FetchFailed(fetch_reply["c1"])
    /\ Len(sent["c1"]) = 2
    /\ ~result["c1"].success

\* C23: a call whose law id is in the cache takes the cached id and makes no
\* lookup request, whatever its law name; a call whose law id is not in the
\* cache makes the lookup request.
C23_CacheByLawId ==
    [][\A c \in Calls :
          ( /\ pc[c] = "idle" /\ pc'[c] # "idle"
            /\ ValidationError(args'[c].mst, args'[c].law_name, args'[c].article) = "" )
          => IF args'[c].mst \in DOMAIN cache
             THEN /\ lsi_seq'[c] = cache[args'[c].mst]
                  /\ sent'[c] = << >>
                  /\ pc'[c] = "sleep"
             ELSE /\ sent'[c] = << LookupRequest(args'[c].law_name) >>
                  /\ pc'[c] = "lookup"]_vars

\* A call with the name of another law was served the id cached for its law id.
C23_Witness ==
    /\ args["c1"].mst = "m1" /\ args["c1"].law_name = "N1"
    /\ args["c2"].mst = "m1" /\ args["c2"].law_name = "N2"
    /\ pc["c2"] = "returned"
    /\ Requests("c2", "lookup") = {}
    /\ Len(sent["c2"]) = 1
    /\ sent["c2"][1].params.lsiSeq = "101"

\* C24: while a call waits in the delay before its fetch, every step the other
\* call is at can be taken.
C24_DelayYields ==
    \A c \in Calls : \A d \in Calls \ {c} :
        pc[c] = "sleep" =>
            /\ pc[d] = "idle" => ENABLED StartStep(d)
            /\ pc[d] = "lookup" => ENABLED LookupStep(d)
            /\ pc[d] = "sleep" => ENABLED SleepStep(d)
            /\ pc[d] = "fetch" => ENABLED FetchStep(d)

\* One call is still in its delay; the other, started after it, has made both
\* its requests and returned its citations.
C24_Witness ==
    /\ pc["c1"] = "sleep"
    /\ Requests("c1", "lookup") # {}
    /\ concurrent
    /\ pc["c2"] = "returned"
    /\ Len(sent["c2"]) = 2
    /\ result["c2"].success

\* C25: every call that has entered extract_citations eventually returns a
\* CitationResult.
C25_Completes ==
    \A c \in Calls :
        (pc[c] \in InFlight) ~> (pc[c] = "returned" /\ IsCitationResult(result[c]))

\* Two calls for the same law id ran concurrently and both returned a
\* CitationResult.
C25_Witness ==
    /\ concurrent
    /\ args["c1"].mst = args["c2"].mst
    /\ \A c \in Calls : pc[c] = "returned" /\ IsCitationResult(result[c])
    /\ result["c1"].success /\ ~result["c2"].success

\* C28: in every CitationResult citation_count is the length of citations,
\* and internal_count + external_count is citation_count: every citation is
\* internal or external.
C28_CountsConsistent ==
    \A c \in Calls :
        (pc[c] = "returned" /\ IsCitationResult(result[c])) =>
            /\ result[c].citation_count = Len(result[c].citations)
            /\ result[c].internal_count + result[c].external_count
                  = result[c].citation_count
            /\ \A i \in DOMAIN result[c].citations :
                  result[c].citations[i].type \in {"internal", "external"}

\* A page of external citations and a page of internal citations with an
\* anchor of unknown marker were both counted.
C28_Witness ==
    /\ pc["c1"] = "returned" /\ IsCitationResult(result["c1"])
    /\ result["c1"].external_count = 2
    /\ pc["c2"] = "returned" /\ IsCitationResult(result["c2"])
    /\ result["c2"].internal_count = 3
    /\ Len(fetch_reply["c2"].text) = 5

\* C29 as stated: right after a call's lookup has failed, the cache has no
\* entry for the call's law id.
C29_NoEntryAfterFailure ==
    [][\A c \in Calls :
          (lookup_reply'[c] # lookup_reply[c] /\ LookupFailed(lookup_reply'[c]))
              => args[c].mst \notin DOMAIN cache']_vars

\* C29, amended: the cache holds only ids that a successful lookup returned; a
\* failed lookup leaves the cache as it was, and a call for a law id the cache
\* does not hold makes the lookup request again.
C29_FailuresNotCached ==
    [][\A c \in Calls :
          /\ (lookup_reply'[c] # lookup_reply[c] /\ LookupFailed(lookup_reply'[c]))
                => cache' = cache
          /\ \A m \in DOMAIN cache' :
                (m \notin DOMAIN cache \/ cache'[m] # cache[m]) =>
                    \E d \in Calls :
                        /\ lookup_reply'[d] # lookup_reply[d]
                        /\ ~LookupFailed(lookup_reply'[d])
                        /\ args[d].mst = m
                        /\ cache'[m] = SeqOf(lookup_reply'[d])
          /\ ( /\ pc[c] = "idle" /\ pc'[c] # "idle"
                /\ ValidationError(args'[c].mst, args'[c].law_name, args'[c].article) = ""
                /\ args'[c].mst \notin DOMAIN cache )
             => Requests(c, "lookup")' # {}]_vars

\* After a call's lookup failed and the call returned, the next call for the
\* same law id has made its own lookup request.
C29_Witness ==
    /\ pc["c1"] = "returned"
    /\ LookupFailed(lookup_reply["c1"])
    /\ ~concurrent
    /\ args["c2"].mst = args["c1"].mst
    /\ pc["c2"] = "lookup"
    /\ args["c1"].mst \notin DOMAIN cache

-----------------------------------------------------------------------------
(* Properties of the ranking *)

\* The name of a record as the ranking compares it, and the query likewise:
\* trimmed and in lower case.
NameOf(r) == Lower(Strip(Get(r, NameField, << >>)))
QueryNow == Lower(Strip(query))

\* The query occurs in name at some position that starts the name or follows a
\* space.
OccursAtBoundary(name, q) ==
    \E idx \in 0..Len(name) :
        /\ OccursAt(name, q, idx)
        /\ idx = 0 \/ name[idx] = " "

\* The relevance class of a name: 1 equal to the query, 2 starting with it,
\* 3 holding it at a word boundary, 4 holding it elsewhere, 5 not holding it.
ClassOf(name, q) ==
    IF name = q THEN 1
    ELSE IF StartsWith(name, q) THEN 2
    ELSE IF OccursAtBoundary(name, q) THEN 3
    ELSE IF Contains(name, q) THEN 4
    ELSE 5

\* C11: for a non-empty query the returned list is ordered by relevance class,
\* and within one class by the length of the name (stated for the records that
\* have a name).
C11_RankingOrder ==
    (rank_pc = "returned" /\ QueryNow # << >>) =>
        \A i, j \in DOMAIN ranked :
            (i < j /\ NameOf(ranked[i]) # << >> /\ NameOf(ranked[j]) # << >>) =>
                \/ ClassOf(NameOf(ranked[i]), QueryNow) < ClassOf(NameOf(ranked[j]), QueryNow)
                \/ /\ ClassOf(NameOf(ranked[i]), QueryNow) = ClassOf(NameOf(ranked[j]), QueryNow)
                   /\ Len(NameOf(ranked[i])) <= Len(NameOf(ranked[j]))

\* The position of record r in list.
PositionIn(list, r) == CHOOSE i \in DOMAIN list : list[i] = r

\* C12: two records with the same score tuple keep their input order in the
\* returned list.
C12_Stable ==
    rank_pc = "returned" =>
        \A i, j \in DOMAIN results :
            ( /\ i < j
              /\ CalculateScore(results[i], query, NameField)
                    = CalculateScore(results[j], query, NameField) )
            => /\ \E k \in DOMAIN ranked : ranked[k] = results[i]
               /\ \E k \in DOMAIN ranked : ranked[k] = results[j]
               /\ PositionIn(ranked, results[i]) < PositionIn(ranked, results[j])

\* Two records with equal scores were moved behind a third and kept their order.
C12_Witness ==
    /\ rank_pc = "returned"
    /\ Len(results) = 3
    /\ CalculateScore(results[1], query, NameField)
          = CalculateScore(results[2], query, NameField)
    /\ ranked = << results[3], results[1], results[2] >>

\* C13: the call returns the input's records, each exactly once and unchanged,
\* and leaves the input list as it was.
C13_RecordsKept ==
    [][rank_pc' = "returned" =>
          /\ results' = results
          /\ Len(ranked') = Len(results)
          /\ \A i \in DOMAIN results :
                Cardinality({k \in DOMAIN ranked' : ranked'[k] = results[i]}) = 1]_vars

\* A list of three records was returned in another order.
C13_Witness ==
    /\ rank_pc = "returned"
    /\ Len(results) = 3
    /\ ranked # results
    /\ ranked[1] = results[3]

\* The query without its leading and trailing spaces, read off the query itself.
Trimmed(q) ==
    CHOOSE t \in {SubSeq(q, a, b) : a \in 1..(Len(q) + 1), b \in 0..Len(q)} :
        \E a \in 1..(Len(q) + 1), b \in 0..Len(q) :
            /\ t = SubSeq(q, a, b)
            /\ \A i \in 1..(a - 1) : q[i] = " "
            /\ \A i \in (b + 1)..Len(q) : q[i] = " "
            /\ t # << >> => (t[1] # " " /\ t[Len(t)] # " ")

\* C14: the gate answers false exactly for a query that, trimmed, is empty, is
\* the token "*", or has fewer than 2 characters.
C14_Gate ==
    rank_pc = "returned" =>
        (should_rank = FALSE
            <=> \/ Trimmed(query) = << >>
                \/ Trimmed(query) = << "*" >>
                \/ Len(Trimmed(query)) < 2)

\* A one-character query between spaces was refused.
C14_Witness ==
    /\ rank_pc = "returned"
    /\ query = << " ", "a", " " >>
    /\ should_rank = FALSE

\* C18: the third component of the key of a record is 0 whenever the query
\* occurs in its name at a word boundary, wherever its first occurrence is.
C18_WordBoundary ==
    (rank_pc = "returned" /\ QueryNow # << >>) =>
        \A i \in DOMAIN results :
            ( /\ NameOf(results[i]) # << >>
              /\ OccursAtBoundary(NameOf(results[i]), QueryNow) )
            => CalculateScore(results[i], query, NameField)[3] = 0

====
